---- MODULE Spec2Model ----
(***************************************************************************)
(* BabelPod (benlachman/babelpod): the audio input session, the outputs    *)
(* and the session owner gate of index.js (src/unnamed/part_003), as a     *)
(* state machine.  Every Socket.IO handler, timer callback and child       *)
(* process event of the daemon is one action; Node runs each of them to    *)
(* completion, so an action is one handler from its first to its last      *)
(* statement.                                                              *)
(*                                                                         *)
(* Time is counted in milliseconds.  Tick advances it by the smallest      *)
(* delay the program uses (the 100 ms of the force-kill timer), of which   *)
(* every other delay is a multiple; a timer fires when its remaining time  *)
(* is 0, and Tick waits for every due timer to fire.                       *)
(***************************************************************************)
EXTENDS Integers, Sequences, FiniteSets, TLC

VARIABLES
  connected,            \* socket ids of the open Socket.IO connections
  sessionOwner,         \* let sessionOwner (None = null)
  currentInput,         \* let currentInput
  arecordInstance,      \* let arecordInstance: Null, a pid, or DeadHandle
  inputStream,          \* let inputStream: VoidStream, a pid's stdout, or DeadHandle
  isManualInputSwitch,  \* let isManualInputSwitch
  inputRestartAttempts, \* let inputRestartAttempts
  busyRetryAttempts,    \* let busyRetryAttempts
  procs,                \* the arecord child processes, by slot
  piped,                \* the readable streams piped into the duplicator
  duplicatorEnded,      \* duplicator.end() was called by a source that ended
  timers,               \* the pending setTimeout callbacks, in creation order
  volume,               \* let volume
  selectedOutputs,      \* let selectedOutputs (an array)
  activeLocalOutputs,   \* let activeLocalOutputs: array of {id, process}
  activeAirPlayDevices, \* let activeAirPlayDevices: array of "host:port"
  availableAirplayOutputs, \* let availableAirplayOutputs
  unifiedOutputs,       \* let unifiedOutputs
  aplays,               \* the aplay child processes that are alive
  airtunesDevs,         \* the devices the AirTunes sink holds, with their volume
  step,                 \* the handler that ran last and what it was given
  out,                  \* what that handler did: emits, spawns, kills, timers
  hist,                 \* what happened since the owner's last switch_input
  budget                \* environment events still allowed in this run

vars == <<connected, sessionOwner, currentInput, arecordInstance, inputStream,
          isManualInputSwitch, inputRestartAttempts, busyRetryAttempts, procs,
          piped, duplicatorEnded, timers, volume, selectedOutputs,
          activeLocalOutputs, activeAirPlayDevices, availableAirplayOutputs,
          unifiedOutputs, aplays, airtunesDevs, step, out, hist, budget>>

----------------------------------------------------------------------------
(* Bounds of the model. *)

MaxProcs == 3        \* arecord processes that exist at one time
MaxTimers == 3       \* pending timers at one time
MaxSwitches == 2     \* switch_input commands the owner issues in one run
MaxCrashes == 4      \* capture processes that exit on their own in one run
MaxHist == 5         \* exits remembered since the last manual switch
MaxCommands == 2     \* output and volume commands the owner issues in one run

(* Program constants (milliseconds and counts). *)

MAX_INPUT_RESTART_ATTEMPTS == 3
INPUT_RESTART_DELAY == 2000
CLEANUP_DELAY == 500
MAX_BUSY_RETRY_ATTEMPTS == 5
BUSY_RETRY_BASE_DELAY == 200
FORCE_KILL_DELAY == 100
DEFAULT_VOLUME == 50

Conns == {"c1", "c2"}
None == "none"                 \* null sessionOwner
Void == "void"                 \* the null input
Devs == {"plughw:1,0", "plughw:2,0"}   \* capture devices (plain PCM ids)
Pids == 1..MaxProcs
Null == 0                      \* arecordInstance = null
VoidStream == 0                \* inputStream is a FromVoid stream
DeadHandle == -1               \* the handle (or stdout) of a process whose exit was handled
DeadKilled == -2               \* such a handle with .killed set

NoProc == [dev |-> Void, st |-> "none", busy |-> FALSE, code |-> 0,
           sig |-> FALSE, killed |-> FALSE, own |-> FALSE]

RECURSIVE Pow2(_)
Pow2(n) == IF n = 0 THEN 1 ELSE 2 * Pow2(n - 1)

Min(a, b) == IF a < b THEN a ELSE b

----------------------------------------------------------------------------
(* The program state as one record, so that a handler is a composition of  *)
(* the functions it calls.  ok turns FALSE when a bound of the model is    *)
(* hit (no process slot left); such a step is not taken.  faulty holds the *)
(* calls that throw or fail while the handler runs: <<"spawn", id>> (spawn *)
(* of aplay throws), <<"enoent", id>> (spawn returns and the child emits   *)
(* 'error' afterwards), <<"kill", id>> (process.kill throws),              *)
(* <<"add", key>> and <<"stop", key>> (airtunes.add, airtunes.stop throw), *)
(* <<"setVolume", key>> (airtunes.setVolume throws).  <<"enoent", devId>>  *)
(* for a capture device: arecord cannot be started.                        *)

P == [connected |-> connected, sessionOwner |-> sessionOwner,
      currentInput |-> currentInput, arecordInstance |-> arecordInstance,
      inputStream |-> inputStream, isManualInputSwitch |-> isManualInputSwitch,
      inputRestartAttempts |-> inputRestartAttempts,
      busyRetryAttempts |-> busyRetryAttempts, procs |-> procs, piped |-> piped,
      duplicatorEnded |-> duplicatorEnded, timers |-> timers, volume |-> volume,
      selectedOutputs |-> selectedOutputs,
      activeLocalOutputs |-> activeLocalOutputs,
      activeAirPlayDevices |-> activeAirPlayDevices,
      availableAirplayOutputs |-> availableAirplayOutputs,
      unifiedOutputs |-> unifiedOutputs, aplays |-> aplays,
      airtunesDevs |-> airtunesDevs, out |-> <<>>, hist |-> hist,
      budget |-> budget, ok |-> TRUE, faulty |-> {}]

Commit(s, st) ==
  /\ s.ok
  /\ step.act # "shutdown"       \* after process.exit(0) nothing runs
  /\ Len(s.timers) <= MaxTimers
  /\ connected' = s.connected
  /\ sessionOwner' = s.sessionOwner
  /\ currentInput' = s.currentInput
  /\ arecordInstance' = s.arecordInstance
  /\ inputStream' = s.inputStream
  /\ isManualInputSwitch' = s.isManualInputSwitch
  /\ inputRestartAttempts' = s.inputRestartAttempts
  /\ busyRetryAttempts' = s.busyRetryAttempts
  /\ procs' = s.procs
  /\ piped' = s.piped
  /\ duplicatorEnded' = s.duplicatorEnded
  /\ timers' = s.timers
  /\ volume' = s.volume
  /\ selectedOutputs' = s.selectedOutputs
  /\ activeLocalOutputs' = s.activeLocalOutputs
  /\ activeAirPlayDevices' = s.activeAirPlayDevices
  /\ availableAirplayOutputs' = s.availableAirplayOutputs
  /\ unifiedOutputs' = s.unifiedOutputs
  /\ aplays' = s.aplays
  /\ airtunesDevs' = s.airtunesDevs
  /\ out' = s.out
  /\ hist' = s.hist
  /\ budget' = s.budget
  /\ step' = st

(* One thing a handler did.  ev: the Socket.IO event emitted, or "spawn",  *)
(* "kill", "pkill", "setTimeout"; to: the receiver ("all" for io.emit), the *)
(* signal, or the timer's kind; what: the device, message or payload;      *)
(* n: a pid or a delay.                                                    *)
E(ev, to, what, n) == [ev |-> ev, to |-> to, what |-> what, n |-> n]
Log(s, e) == [s EXCEPT !.out = Append(@, e)]
(* The handler that ran: its name, and what it was given (the connection,   *)
(* the device, the pid; for an 'exit' the kind of exit, see ExitKind; for a *)
(* timer whether it was pending when the owner switched to another device). *)
St(act, conn, dev, pid) ==
  [act |-> act, conn |-> conn, dev |-> dev, pid |-> pid, kind |-> "", stale |-> FALSE,
   faulty |-> {}, before |-> <<0, 0>>]

Live(r) == r.st \in {"running", "terminating"}

(* setTimeout(cb, ms).  pid is not read by any callback: it remembers, for  *)
(* the force-kill timer, the process the SIGTERM before it was sent to.    *)
AddTimer(s, kind, dev, ms) ==
  Log([s EXCEPT !.timers = Append(@, [kind |-> kind, dev |-> dev, left |-> ms,
                                      dur |-> ms, stale |-> FALSE, pid |-> 0])],
      E("setTimeout", kind, dev, ms))

(* A capture process has died: its stdout ends.  inputStream.pipe(duplicator) *)
(* is called without {end: false}, so a source that ends while piped ends  *)
(* the duplicator.                                                         *)
EndStream(s, p) ==
  [s EXCEPT !.piped = @ \ {p},
            !.duplicatorEnded = @ \/ (p \in s.piped)]

(* child.kill(signal) on the ChildProcess in slot p.  arecord exits on     *)
(* SIGTERM when it gets to handle it ("terminating" until then); SIGKILL   *)
(* ends it at once.  Nothing happens to a process that is already dead.    *)
KillProc(s, p, signal) ==
  IF ~Live(s.procs[p]) THEN s
  ELSE IF signal = "SIGTERM"
       THEN [s EXCEPT !.procs[p].st = "terminating", !.procs[p].killed = TRUE]
       ELSE EndStream([s EXCEPT !.procs[p].st = "dead", !.procs[p].sig = TRUE,
                                !.procs[p].killed = TRUE], p)

Kill(s, h, signal) ==
  Log(IF h \in Pids THEN KillProc(s, h, signal) ELSE s, E("kill", signal, "", h))

(* function cleanupCurrentInput() *)
cleanupCurrentInput(s) ==
  LET s1 == IF s.inputStream \in s.piped
            THEN Log([s EXCEPT !.piped = @ \ {s.inputStream}],
                     E("unpipe", "duplicator", "", s.inputStream))
            ELSE s
  IN IF s.arecordInstance = Null THEN s1
     ELSE [AddTimer(Kill(s1, s.arecordInstance, "SIGTERM"),
                    "forcekill", Void, FORCE_KILL_DELAY)
             EXCEPT !.arecordInstance = Null,
                    !.timers[Len(s1.timers) + 1].pid = s.arecordInstance]

(* The 100 ms callback of cleanupCurrentInput: it reads the global         *)
(* arecordInstance as it is when the timer fires.                          *)
ForceKillCallback(s) ==
  IF s.arecordInstance # Null /\ s.arecordInstance # DeadKilled
     /\ (s.arecordInstance = DeadHandle \/ ~s.procs[s.arecordInstance].killed)
  THEN Kill(s, s.arecordInstance, "SIGKILL")
  ELSE s

(* function killOrphanedArecord(devId): pkill -9 -f "arecord.*<devId>"     *)
(* reaches every arecord of the machine bound to devId, the daemon's own   *)
(* children included.                                                      *)
killOrphanedArecord(s, devId) ==
  LET victims == {p \in Pids : s.procs[p].dev = devId /\ Live(s.procs[p])}
  IN IF devId = Void \/ victims = {} THEN s
     ELSE Log([s EXCEPT
                 !.procs = [p \in Pids |->
                              IF p \in victims
                              THEN [s.procs[p] EXCEPT !.st = "dead", !.sig = TRUE]
                              ELSE s.procs[p]],
                 !.piped = @ \ victims,
                 !.duplicatorEnded = @ \/ (victims \cap s.piped # {})],
              E("pkill", "SIGKILL", devId, Cardinality(victims)))

FreePids(s) == {p \in Pids : s.procs[p].st = "none"}

(* function startArecordForDevice(devId, isRetry) *)
startArecordForDevice(s, devId, isRetry) ==
  IF devId = Void THEN s
  ELSE
    LET s1 == killOrphanedArecord(s, devId)
        free == FreePids(s1)
        pid == IF free = {} THEN 1 ELSE CHOOSE p \in free : \A q \in free : p <= q
        s2 == Log([s1 EXCEPT !.ok = @ /\ free # {},
                             !.procs[pid] = [NoProc EXCEPT !.dev = devId,
                                                           !.st = IF <<"enoent", devId>> \in s1.faulty
                                                                  THEN "failed" ELSE "running"],
                             !.arecordInstance = pid,
                             !.inputStream = pid,
                             !.piped = @ \cup {pid}],
                  E("spawn", "arecord", devId, pid))
        s3 == Log(s2, E("switched_input", "all", s2.currentInput, 0))
    IN IF ~isRetry
       THEN Log([s3 EXCEPT !.busyRetryAttempts = 0],
                E("server_status", "all", "Input switched", 0))
       ELSE [Log(s3, E("server_status", "all", "Input successfully connected", 0))
               EXCEPT !.busyRetryAttempts = 0, !.isManualInputSwitch = FALSE]

(* function restartInputDevice(devId, delayMs): the outer setTimeout *)
restartInputDevice(s, devId, delayMs) ==
  IF devId = Void THEN s
  ELSE [AddTimer(s, "restart", devId, delayMs)
          EXCEPT !.hist.restarts = Min(@ + 1, MaxHist)]

(* ... its callback: cleanup, then the inner setTimeout ... *)
RestartCallback(s, devId) ==
  AddTimer(cleanupCurrentInput(s), "restart2", devId, CLEANUP_DELAY)

(* The inner timer belongs to the restart its outer timer started. *)
InheritStale(s, stale) ==
  [s EXCEPT !.timers[Len(s.timers)].stale = stale]

(* ... and the inner callback. *)
Restart2Callback(s, devId) ==
  Log([startArecordForDevice(s, devId, FALSE)
         EXCEPT !.inputRestartAttempts = @ + 1],
      E("server_status", "all", "Input device reconnected", 0))

(* The kind of an exit: of a process of the current input that died *)
(* on its own with the busy/open error on stderr ("busy"), with another    *)
(* non-zero code ("crash") or with code 0 ("clean"); of one the daemon     *)
(* killed ("killed"); of a process of another device ("other").  hist      *)
(* remembers the exits of the first three kinds, in order.                 *)
ExitKind(s, r) ==
  IF r.dev # s.currentInput THEN "other"
  ELSE IF ~r.own THEN "killed"
  ELSE IF r.busy THEN "busy"
  ELSE IF r.code # 0 THEN "crash" ELSE "clean"

Remember(s, r) ==
  IF ExitKind(s, r) \in {"other", "killed"} THEN s
  ELSE IF Len(s.hist.exits) < MaxHist
  THEN [s EXCEPT !.hist.exits = Append(@, ExitKind(s, r))]
  ELSE [s EXCEPT !.hist.over = TRUE]

(* retryDelay = BUSY_RETRY_BASE_DELAY * Math.pow(2, busyRetryAttempts - 1) *)
RetryDelay(attempts) == BUSY_RETRY_BASE_DELAY * Pow2(attempts - 1)

(* An 'error' handler of arecord that treats the failure as a crash. *)
ArecordErrorHandler_Restarts(s, devId) ==
  restartInputDevice(Log(s, E("server_error", "all", "Input device error", 0)),
                     devId, INPUT_RESTART_DELAY)

(* arecordInstance.on('error', error => ...) of setupArecordHandlers *)
ArecordErrorHandler(s, devId) ==
  Log(s, E("server_error", "all", "Input device error", 0))

(* The three conditions of the 'exit' handler. *)
BusyRetryCond(s, isBusyError) ==
  isBusyError /\ s.isManualInputSwitch
  /\ s.busyRetryAttempts < MAX_BUSY_RETRY_ATTEMPTS

BusyGiveUpCond(s, isBusyError) ==
  isBusyError /\ s.busyRetryAttempts >= MAX_BUSY_RETRY_ATTEMPTS

CrashCond(s, devId) == ~s.isManualInputSwitch /\ s.currentInput = devId

(* arecordInstance.on('exit', (code, signal) => ...) of setupArecordHandlers, *)
(* for the process in slot p; devId and stderrBuffer are the closure's.    *)
ExitHandler(s, p) ==
  LET r == s.procs[p]
      devId == r.dev
      isBusyError == r.busy
  IN IF BusyRetryCond(s, isBusyError)
     THEN LET n == s.busyRetryAttempts + 1
              s1 == Log([s EXCEPT !.busyRetryAttempts = n],
                        E("server_status", "all", "Device busy, retrying", n))
          IN [AddTimer(s1, "busy", devId, RetryDelay(n))
                EXCEPT !.hist.delays = Append(@, RetryDelay(n))]
     ELSE IF BusyGiveUpCond(s, isBusyError)
     THEN [Log(s, E("server_error", "all", "Device is busy", 0))
             EXCEPT !.busyRetryAttempts = 0, !.isManualInputSwitch = FALSE]
     ELSE
       LET s1 == IF CrashCond(s, devId) /\ (r.code # 0 \/ r.sig)
                 THEN LET s2 == Log(s, E("server_error", "all",
                                         "Input device disconnected", 0))
                      IN IF s2.inputRestartAttempts < MAX_INPUT_RESTART_ATTEMPTS
                         THEN restartInputDevice(s2, devId, INPUT_RESTART_DELAY)
                         ELSE [Log(s2, E("server_error", "all",
                                         "Please reselect the input", 0))
                                 EXCEPT !.inputRestartAttempts = 0,
                                        !.hist.failed = TRUE]
                 ELSE s
       IN IF s1.isManualInputSwitch
          THEN [s1 EXCEPT !.isManualInputSwitch = FALSE, !.busyRetryAttempts = 0]
          ELSE s1

(* Once its exit has been handled the process is gone; a variable that     *)
(* still holds its handle holds the handle of a dead process.              *)
Reap(s, p) ==
  [s EXCEPT !.procs[p] = NoProc,
            !.arecordInstance = IF @ = p
                                THEN (IF s.procs[p].killed THEN DeadKilled
                                      ELSE DeadHandle)
                                ELSE @,
            !.inputStream = IF @ = p THEN DeadHandle ELSE @]

----------------------------------------------------------------------------
(* Outputs.  A uiId is a string the code tests with startsWith; here it is *)
(* the pair of its prefix and the rest: "plughw:..." is [kind |-> "plughw"],*)
(* 'air:' + name is [kind |-> "air"], 'airpair:' + key is "airpair".  An   *)
(* AirPlay descriptor is [name, stereo, hp]: hp is `${host}:${port}`, and  *)
(* stereo = "" is a null gpn.                                              *)

Ui(kind, name) == [kind |-> kind, name |-> name]
VoidOut == Ui("void", "")
PcmOutputs == <<[id |-> "plughw:0,0", name |-> "Speaker"]>>   \* /proc/asound/pcm
AirDescs == {[name |-> "A", stereo |-> "Pair", hp |-> "h1:7000"],
             [name |-> "B", stereo |-> "Pair", hp |-> "h2:7000"],
             [name |-> "C", stereo |-> "", hp |-> "h3:7000"]}
MaxAplay == 2        \* aplay processes that exist at one time

InSeq(x, seq) == \E i \in 1..Len(seq) : seq[i] = x

RECURSIVE MapSeq(_, _)
MapSeq(F(_), seq) ==
  IF seq = <<>> THEN <<>> ELSE <<F(Head(seq))>> \o MapSeq(F, Tail(seq))

(* unique[key]: the first descriptor of every name_host_port *)
RECURSIVE Unique(_, _)
Unique(seq, acc) ==
  IF seq = <<>> THEN acc
  ELSE LET d == Head(seq)
       IN Unique(Tail(seq),
                 IF \E i \in 1..Len(acc) : acc[i].name = d.name /\ acc[i].hp = d.hp
                 THEN acc ELSE Append(acc, d))

(* A grouping key that ignores the stereo group name. *)
StereoKey_OwnAddress(d) == d.hp

StereoKey(d) == IF d.stereo # "" THEN d.stereo ELSE d.hp

(* the keys of grouped, in the order a for-in loop visits them *)
RECURSIVE GroupKeys(_, _)
GroupKeys(seq, acc) ==
  IF seq = <<>> THEN acc
  ELSE GroupKeys(Tail(seq), IF InSeq(StereoKey(Head(seq)), acc) THEN acc
                            ELSE Append(acc, StereoKey(Head(seq))))

(* function buildUnifiedOutputs() *)
buildUnifiedOutputs(pcm, airplay) ==
  LET local == MapSeq(LAMBDA o : [uiId |-> Ui("plughw", o.id), isStereo |-> FALSE,
                                  devices |-> <<[localId |-> o.id, hp |-> "",
                                                 isStereo |-> FALSE]>>], pcm)
      cleaned == Unique(airplay, <<>>)
      keys == GroupKeys(cleaned, <<>>)
      Group(k) == SelectSeq(cleaned, LAMBDA d : StereoKey(d) = k)
      Air(k) == LET arr == Group(k)
                IN IF Len(arr) = 1
                   THEN [uiId |-> Ui("air", arr[1].name), isStereo |-> FALSE,
                         devices |-> <<[localId |-> "", hp |-> arr[1].hp,
                                        isStereo |-> FALSE]>>]
                   ELSE [uiId |-> Ui("airpair", k), isStereo |-> TRUE,
                         devices |-> MapSeq(LAMBDA d : [localId |-> "", hp |-> d.hp,
                                                        isStereo |-> TRUE], arr)]
  IN local \o MapSeq(Air, keys)

(* function updateAllOutputs() *)
updateAllOutputs(s) ==
  Log([s EXCEPT !.unifiedOutputs = buildUnifiedOutputs(PcmOutputs,
                                                       s.availableAirplayOutputs)],
      E("available_outputs", "all", "", 0))

(* function updateAllInputs() *)
updateAllInputs(s) == Log(s, E("available_inputs", "all", "", 0))

(* unifiedOutputs.find(u => u.uiId === id): its index, 0 when not found *)
FindUnified(s, id) ==
  LET hits == {i \in 1..Len(s.unifiedOutputs) : s.unifiedOutputs[i].uiId = id}
  IN IF hits = {} THEN 0 ELSE CHOOSE i \in hits : \A j \in hits : i <= j

(* airtunes.setVolume(deviceKey, volume): the device plays at volume; a   *)
(* call that throws leaves the device as it is.                            *)
SetVolume(s, deviceKey) ==
  Log([s EXCEPT !.airtunesDevs =
         [k \in DOMAIN @ |-> IF k = deviceKey THEN s.volume ELSE @[k]]],
      E("airtunes.setVolume", "", deviceKey, s.volume))

(* activeAirPlayDevices.forEach without the try/catch around setVolume:    *)
(* the first call that throws ends the loop.                               *)
RECURSIVE SetVolumes_Uncaught(_, _)
SetVolumes_Uncaught(s, keys) ==
  IF keys = <<>> THEN s
  ELSE IF <<"setVolume", Head(keys)>> \in s.faulty THEN s
  ELSE SetVolumes_Uncaught(SetVolume(s, Head(keys)), Tail(keys))

ApplyVolume_Uncaught(s) == SetVolumes_Uncaught(s, s.activeAirPlayDevices)

(* activeAirPlayDevices.forEach(deviceKey => { try { airtunes.setVolume(   *)
(* deviceKey, volume) } catch (e) { console.error(...) } })                *)
RECURSIVE SetVolumes(_, _)
SetVolumes(s, keys) ==
  IF keys = <<>> THEN s
  ELSE SetVolumes(IF <<"setVolume", Head(keys)>> \in s.faulty THEN s
                  ELSE SetVolume(s, Head(keys)),
                  Tail(keys))

ApplyVolume(s) == SetVolumes(s, s.activeAirPlayDevices)

(* removed.forEach(rid => ...) of syncOutputs, for one rid *)
RemoveOutput(s, rid) ==
  IF rid.kind = "plughw"
  THEN LET gone == {i \in 1..Len(s.activeLocalOutputs) :
                      s.activeLocalOutputs[i].id = rid}
           ps == {s.activeLocalOutputs[i].process : i \in gone}
       IN IF gone = {} THEN s
          ELSE IF <<"kill", rid.name>> \in s.faulty
          THEN [s EXCEPT !.activeLocalOutputs = SelectSeq(@, LAMBDA o : o.id # rid)]
          ELSE Log([s EXCEPT !.activeLocalOutputs = SelectSeq(@, LAMBDA o : o.id # rid),
                             !.aplays = @ \ ps],
                   E("kill", "SIGTERM", "aplay", Cardinality(ps)))
  ELSE IF rid.kind \in {"air", "airpair"}
  THEN LET u == FindUnified(s, rid)
           all == IF u = 0 THEN {}
                  ELSE {s.unifiedOutputs[u].devices[i].hp :
                          i \in 1..Len(s.unifiedOutputs[u].devices)} \ {""}
           keys == {k \in all : <<"stop", k>> \notin s.faulty}
       IN IF keys = {} THEN s
          ELSE Log([s EXCEPT !.airtunesDevs = [k \in DOMAIN @ \ keys |-> @[k]],
                             !.activeAirPlayDevices = SelectSeq(@, LAMBDA k : k \notin keys)],
                   E("airtunes.stop", "", "", Cardinality(keys)))
  ELSE s

(* ud.devices.forEach without the try/catch around airtunes.add: the first *)
(* add that throws ends the loop.                                          *)
RECURSIVE AddDevices_Uncaught(_, _)
AddDevices_Uncaught(s, devices) ==
  IF devices = <<>> THEN s
  ELSE LET d == Head(devices)
       IN IF d.hp = "" THEN AddDevices_Uncaught(s, Tail(devices))
          ELSE IF <<"add", d.hp>> \in s.faulty
          THEN Log(s, E("server_error", "all", "Error adding output", 0))
          ELSE AddDevices_Uncaught(
                 Log([s EXCEPT
                        !.airtunesDevs = [k \in DOMAIN @ \cup {d.hp} |->
                                            IF k = d.hp THEN s.volume ELSE @[k]],
                        !.activeAirPlayDevices =
                           IF InSeq(d.hp, @) THEN @ ELSE Append(@, d.hp)],
                     E("airtunes.add", "", d.hp, s.volume)),
                 Tail(devices))

RECURSIVE AddDevices(_, _)
AddDevices(s, devices) ==
  IF devices = <<>> THEN s
  ELSE LET d == Head(devices)
           s1 == IF d.hp = "" THEN s
                 ELSE IF <<"add", d.hp>> \in s.faulty
                 THEN Log(s, E("server_error", "all", "AirPlay error", 0))
                 ELSE Log([s EXCEPT
                             !.airtunesDevs = [k \in DOMAIN @ \cup {d.hp} |->
                                                 IF k = d.hp THEN s.volume ELSE @[k]],
                             !.activeAirPlayDevices =
                                IF InSeq(d.hp, @) THEN @ ELSE Append(@, d.hp)],
                          E("airtunes.add", "", d.hp, s.volume))
       IN AddDevices(s1, Tail(devices))

(* added.forEach(aid => ...) of syncOutputs, for one aid *)
AddOutput(s, aid) ==
  IF aid = VoidOut THEN s
  ELSE IF aid.kind = "plughw"
  THEN LET used == s.aplays \cup {s.activeLocalOutputs[i].process :
                                    i \in 1..Len(s.activeLocalOutputs)}
           free == (1..MaxAplay) \ used
           pid == IF free = {} THEN 1 ELSE CHOOSE p \in free : \A q \in free : p <= q
       IN IF <<"spawn", aid.name>> \in s.faulty
          THEN Log(s, E("server_error", "all", "Error adding output", 0))
          ELSE IF <<"enoent", aid.name>> \in s.faulty
          THEN [s EXCEPT !.activeLocalOutputs = Append(@, [id |-> aid, process |-> 0]),
                         !.timers = Append(@, [kind |-> "aplayerror", dev |-> aid.name,
                                               left |-> 0, dur |-> 0, stale |-> FALSE,
                                               pid |-> 0])]
          ELSE
          Log([s EXCEPT !.ok = @ /\ free # {},
                        !.aplays = @ \cup {pid},
                        !.activeLocalOutputs = Append(@, [id |-> aid, process |-> pid])],
              E("spawn", "aplay", aid.name, pid))
  ELSE IF aid.kind \in {"air", "airpair"}
  THEN LET u == FindUnified(s, aid)
       IN IF u = 0 THEN s ELSE AddDevices(s, s.unifiedOutputs[u].devices)
  ELSE s

RECURSIVE ForEach(_, _, _)
ForEach(F(_, _), s, seq) ==
  IF seq = <<>> THEN s ELSE ForEach(F, F(s, Head(seq)), Tail(seq))

(* A syncOutputs that adds every selected output again, selected before or *)
(* not.                                                                    *)
syncOutputs_AddsAll(s, newSelected) ==
  LET old == s.selectedOutputs
      s0 == [s EXCEPT !.selectedOutputs = newSelected]
      removed == SelectSeq(old, LAMBDA r : ~InSeq(r, newSelected))
  IN ApplyVolume(ForEach(AddOutput, ForEach(RemoveOutput, s0, removed), newSelected))

(* A syncOutputs that opens the added outputs before it closes the removed *)
(* ones.                                                                   *)
syncOutputs_AddsFirst(s, newSelected) ==
  LET old == s.selectedOutputs
      s0 == [s EXCEPT !.selectedOutputs = newSelected]
      removed == SelectSeq(old, LAMBDA r : ~InSeq(r, newSelected))
      added == SelectSeq(newSelected, LAMBDA a : ~InSeq(a, old))
  IN ApplyVolume(ForEach(RemoveOutput, ForEach(AddOutput, s0, added), removed))

(* function syncOutputs(newSelected) *)
syncOutputs(s, newSelected) ==
  LET old == s.selectedOutputs
      s0 == [s EXCEPT !.selectedOutputs = newSelected]
      removed == SelectSeq(old, LAMBDA r : ~InSeq(r, newSelected))
      added == SelectSeq(newSelected, LAMBDA a : ~InSeq(a, old))
  IN ApplyVolume(ForEach(AddOutput, ForEach(RemoveOutput, s0, removed), added))

----------------------------------------------------------------------------
(* The session owner gate and the Socket.IO handlers.                      *)

(* A gate that lets every connection through. *)
IsOwner_Open(s, c) == TRUE

(* if (socket.id !== sessionOwner) return; *)
IsOwner(s, c) == c = s.sessionOwner

(* A connection handler under which the first connection keeps the session. *)
ConnectionHandler_FirstKeeps(s, c) ==
  LET s1 == IF s.sessionOwner = None THEN [s EXCEPT !.sessionOwner = c] ELSE s
  IN Log(s1, E("sessionOwnerUpdate", c, s1.sessionOwner, 0))

(* io.on('connection', socket => ...), up to the registration of handlers *)
ConnectionHandler(s, c) ==
  LET s1 == IF s.sessionOwner # None /\ s.sessionOwner # c
            THEN [Log(s, E("sessionLostControl", s.sessionOwner, "", 0))
                    EXCEPT !.sessionOwner = c]
            ELSE IF s.sessionOwner = None THEN [s EXCEPT !.sessionOwner = c]
            ELSE s
      s2 == Log(s1, E("sessionOwnerUpdate", c, s1.sessionOwner, 0))
      s3 == updateAllOutputs(updateAllInputs(s2))
      s4 == Log(s3, E("switched_input", c, s3.currentInput, 0))
      s5 == Log(s4, E("switched_output", c, "", 0))
  IN Log(s5, E("changed_output_volume", c, "", s5.volume))

(* A takeover handler without the test sessionOwner !== socket.id. *)
TakeoverHandler_Unconditional(s, c) ==
  LET s1 == IF s.sessionOwner # None
            THEN Log(s, E("sessionLostControl", s.sessionOwner, "", 0))
            ELSE s
  IN Log([s1 EXCEPT !.sessionOwner = c], E("sessionOwnerUpdate", "all", c, 0))

(* socket.on('user_takeover', ...) *)
TakeoverHandler(s, c) ==
  IF s.sessionOwner # c
  THEN LET s1 == IF s.sessionOwner # None
                 THEN Log(s, E("sessionLostControl", s.sessionOwner, "", 0))
                 ELSE s
       IN Log([s1 EXCEPT !.sessionOwner = c], E("sessionOwnerUpdate", "all", c, 0))
  ELSE s

(* A disconnect handler that leaves the owner as it is. *)
DisconnectHandler_KeepsOwner(s, c) == s

(* A disconnect handler that clears the owner whoever leaves. *)
DisconnectHandler_AlwaysClears(s, c) == [s EXCEPT !.sessionOwner = None]

(* socket.on('disconnect', ...) *)
DisconnectHandler(s, c) ==
  IF c = s.sessionOwner THEN [s EXCEPT !.sessionOwner = None] ELSE s

(* A switch_input handler that leaves the two counters as they are. *)
SwitchInputHandler_KeepsCounters(s, c, devId) ==
  IF ~IsOwner(s, c) THEN s
  ELSE
    LET s1 == [s EXCEPT !.isManualInputSwitch = TRUE]
        s2 == [cleanupCurrentInput(s1) EXCEPT !.currentInput = devId]
    IN IF devId = Void
       THEN LET s3 == [s2 EXCEPT !.inputStream = VoidStream,
                                 !.piped = @ \cup {VoidStream}]
                s4 == Log(s3, E("switched_input", "all", devId, 0))
            IN [Log(s4, E("server_status", "all", "Input switched", 0))
                  EXCEPT !.isManualInputSwitch = FALSE]
       ELSE AddTimer(s2, "settle", devId, CLEANUP_DELAY)

(* A switch_input handler whose void branch leaves isManualInputSwitch set. *)
SwitchInputHandler_VoidKeepsFlag(s, c, devId) ==
  IF ~IsOwner(s, c) THEN s
  ELSE
    LET s1 == [s EXCEPT !.isManualInputSwitch = TRUE,
                        !.inputRestartAttempts = 0,
                        !.busyRetryAttempts = 0]
        s2 == [cleanupCurrentInput(s1) EXCEPT !.currentInput = devId]
    IN IF devId = Void
       THEN LET s3 == [s2 EXCEPT !.inputStream = VoidStream,
                                 !.piped = @ \cup {VoidStream}]
                s4 == Log(s3, E("switched_input", "all", devId, 0))
            IN Log(s4, E("server_status", "all", "Input switched", 0))
       ELSE AddTimer(s2, "settle", devId, CLEANUP_DELAY)

(* socket.on('switch_input', devId => ...).  The devices offered are plain *)
(* PCM ids, so the bluealsa branch is not taken.                           *)
SwitchInputHandler(s, c, devId) ==
  IF ~IsOwner(s, c) THEN s
  ELSE
    LET s1 == [s EXCEPT !.isManualInputSwitch = TRUE,
                        !.inputRestartAttempts = 0,
                        !.busyRetryAttempts = 0]
        s2 == [cleanupCurrentInput(s1) EXCEPT !.currentInput = devId]
    IN IF devId = Void
       THEN LET s3 == [s2 EXCEPT !.inputStream = VoidStream,
                                 !.piped = @ \cup {VoidStream}]
                s4 == Log(s3, E("switched_input", "all", devId, 0))
            IN [Log(s4, E("server_status", "all", "Input switched", 0))
                  EXCEPT !.isManualInputSwitch = FALSE]
       ELSE AddTimer(s2, "settle", devId, CLEANUP_DELAY)

(* socket.on('switch_output', outs => ...) *)
SwitchOutputHandler(s, c, outs) ==
  IF ~IsOwner(s, c) THEN s
  ELSE Log(Log(syncOutputs(s, outs), E("switched_output", "all", "", 0)),
           E("server_status", "all", "Outputs updated", 0))

(* Number(vol) of a string payload; nan: the result is NaN. *)
Number(txt) ==
  CASE txt = "42" -> [nan |-> FALSE, v |-> 42]
    [] txt = "150" -> [nan |-> FALSE, v |-> 150]
    [] txt = "-5" -> [nan |-> FALSE, v |-> -5]
    [] txt = "" -> [nan |-> FALSE, v |-> 0]
    [] OTHER -> [nan |-> TRUE, v |-> 0]

(* Number(vol) || 0 *)
NumberOrZero(txt) == IF Number(txt).nan THEN 0 ELSE Number(txt).v

(* socket.on('change_output_volume', vol => ...), vol a number: for a      *)
(* number that is not NaN, Number(vol) || 0 is vol.  A string payload goes *)
(* through NumberOrZero first, see ChangeVolumeText.                       *)
ChangeVolumeHandler(s, c, vol) ==
  IF ~IsOwner(s, c) THEN s
  ELSE Log(ApplyVolume([s EXCEPT !.volume = vol]),
           E("changed_output_volume", "all", "", vol))

(* A serviceUp handler that does not look for the address in the catalog. *)
ServiceUpHandler_NoLookup(s, d) ==
  updateAllOutputs([s EXCEPT !.availableAirplayOutputs = Append(@, d)])

(* o.process.kill() for one entry of activeLocalOutputs *)
KillLocalOutput(s, o) ==
  Log([s EXCEPT !.aplays = @ \ {o.process}], E("kill", "SIGTERM", "aplay", o.process))

(* A shutdown that leaves the local outputs alone. *)
ShutdownHandler_InputOnly(s) == cleanupCurrentInput(s)

(* process.on('SIGINT', ...) and process.on('SIGTERM', ...), up to         *)
(* process.exit(0)                                                         *)
ShutdownHandler(s) ==
  ForEach(KillLocalOutput, cleanupCurrentInput(s), s.activeLocalOutputs)

(* browser.on('serviceChanged', data => ...) *)
ServiceChangedHandler(s, d) ==
  LET hits == {i \in 1..Len(s.availableAirplayOutputs) :
                 s.availableAirplayOutputs[i].hp = d.hp}
  IN IF hits # {}
     THEN LET i == CHOOSE x \in hits : \A y \in hits : x <= y
          IN updateAllOutputs([s EXCEPT !.availableAirplayOutputs[i].name = d.name,
                                        !.availableAirplayOutputs[i].stereo = d.stereo])
     ELSE updateAllOutputs([s EXCEPT !.availableAirplayOutputs = Append(@, d)])

(* browser.on('serviceDown', data => ...) *)
ServiceDownHandler(s, d) ==
  LET rest == SelectSeq(s.availableAirplayOutputs, LAMBDA o : o.hp # d.hp)
  IN IF Len(rest) < Len(s.availableAirplayOutputs)
     THEN updateAllOutputs([s EXCEPT !.availableAirplayOutputs = rest])
     ELSE s

(* browser.on('serviceUp', data => ...) *)
ServiceUpHandler(s, d) ==
  IF ~\E i \in 1..Len(s.availableAirplayOutputs) :
         s.availableAirplayOutputs[i].hp = d.hp
  THEN updateAllOutputs([s EXCEPT !.availableAirplayOutputs = Append(@, d)])
  ELSE s

----------------------------------------------------------------------------
(* The actions.                                                            *)

(* hist: the exits (busy, crash, clean) of capture processes of the current *)
(* input since the owner's last switch_input, the busy-retry delays and the *)
(* number of restarts scheduled since then, and whether that switch_input   *)
(* came with nothing of an earlier session left (quiet).                    *)
NoHist == [exits |-> <<>>, over |-> FALSE, delays |-> <<>>, restarts |-> 0,
           quiet |-> FALSE, prev |-> FALSE, failed |-> FALSE]

(* arecordInstance holds a running capture process of a device other than *)
(* devId.                                                                  *)
OtherCaptureRuns(s, devId) ==
  /\ s.arecordInstance \in Pids
  /\ s.procs[s.arecordInstance].st = "running"
  /\ s.procs[s.arecordInstance].dev # devId

(* No capture process exists and no timer is pending. *)
Quiet(s) == s.timers = <<>> /\ \A p \in Pids : s.procs[p].st = "none"

Init ==
  /\ connected = {}
  /\ sessionOwner = None
  /\ currentInput = Void
  /\ arecordInstance = Null
  /\ inputStream = VoidStream
  /\ isManualInputSwitch = FALSE
  /\ inputRestartAttempts = 0
  /\ busyRetryAttempts = 0
  /\ procs = [p \in Pids |-> NoProc]
  /\ piped = {VoidStream}
  /\ duplicatorEnded = FALSE
  /\ timers = <<>>
  /\ volume = DEFAULT_VOLUME
  /\ selectedOutputs = <<>>
  /\ activeLocalOutputs = <<>>
  /\ activeAirPlayDevices = <<>>
  /\ availableAirplayOutputs = <<>>
  /\ unifiedOutputs = <<>>
  /\ aplays = {}
  /\ airtunesDevs = <<>>
  /\ step = St("init", None, Void, 0)
  /\ out = <<>>
  /\ hist = NoHist
  /\ budget = [switches |-> MaxSwitches, crashes |-> MaxCrashes,
               commands |-> MaxCommands]

Connect(c) ==
  /\ c \notin connected
  /\ Commit(ConnectionHandler([P EXCEPT !.connected = @ \cup {c}], c),
            St("connection", c, Void, 0))

Disconnect(c) ==
  /\ c \in connected
  /\ Commit(DisconnectHandler([P EXCEPT !.connected = @ \ {c}], c),
            St("disconnect", c, Void, 0))

Takeover(c) ==
  /\ c \in connected
  /\ Commit(TakeoverHandler(P, c), St("user_takeover", c, Void, 0))

(* The timers that are pending while the owner switches to another device. *)
MarkStale(s, devId) ==
  [s EXCEPT !.timers = [i \in 1..Len(@) |->
                          IF @[i].kind # "forcekill" /\ @[i].dev # devId
                          THEN [@[i] EXCEPT !.stale = TRUE] ELSE @[i]]]

SwitchInput(c, devId) ==
  /\ c \in connected
  /\ IsOwner(P, c) => budget.switches > 0
  /\ LET s == SwitchInputHandler(P, c, devId)
     IN Commit(IF IsOwner(P, c)
               THEN [MarkStale(s, devId) EXCEPT !.hist = [NoHist EXCEPT !.quiet = Quiet(P),
                                                                        !.prev = OtherCaptureRuns(P, devId)],
                                                !.budget.switches = @ - 1]
               ELSE s,
               [St("switch_input", c, devId, 0)
                  EXCEPT !.before = <<busyRetryAttempts, inputRestartAttempts>>])

SwitchOutput(c, outs) ==
  /\ c \in connected
  /\ IsOwner(P, c) => budget.commands > 0
  /\ LET s == SwitchOutputHandler(P, c, outs)
     IN Commit(IF IsOwner(P, c) THEN [s EXCEPT !.budget.commands = @ - 1] ELSE s,
               St("switch_output", c, Void, 0))

(* switch_output while some of the calls syncOutputs makes fail. *)
SwitchOutputFailing(c, outs, f) ==
  /\ c \in connected
  /\ f # {}
  /\ IsOwner(P, c) => budget.commands > 0
  /\ LET s == SwitchOutputHandler([P EXCEPT !.faulty = f], c, outs)
     IN Commit(IF IsOwner(P, c) THEN [s EXCEPT !.budget.commands = @ - 1] ELSE s,
               [St("switch_output", c, Void, 0) EXCEPT !.faulty = f])

ChangeVolume(c, vol) ==
  /\ c \in connected
  /\ IsOwner(P, c) => budget.commands > 0
  /\ LET s == ChangeVolumeHandler(P, c, vol)
     IN Commit(IF IsOwner(P, c) THEN [s EXCEPT !.budget.commands = @ - 1] ELSE s,
               St("change_output_volume", c, Void, vol))

(* change_output_volume while some of the setVolume calls fail. *)
ChangeVolumeFailing(c, vol, f) ==
  /\ c \in connected
  /\ f # {}
  /\ IsOwner(P, c) => budget.commands > 0
  /\ LET s == ChangeVolumeHandler([P EXCEPT !.faulty = f], c, vol)
     IN Commit(IF IsOwner(P, c) THEN [s EXCEPT !.budget.commands = @ - 1] ELSE s,
               [St("change_output_volume", c, Void, vol) EXCEPT !.faulty = f])

(* change_output_volume with a string payload *)
ChangeVolumeText(c, txt) ==
  /\ c \in connected
  /\ IsOwner(P, c) => budget.commands > 0
  /\ LET s == ChangeVolumeHandler(P, c, NumberOrZero(txt))
     IN Commit(IF IsOwner(P, c) THEN [s EXCEPT !.budget.commands = @ - 1] ELSE s,
               St("change_output_volume", c, txt, 0))

(* What the mDNS browser reports: the three devices, and the first of     *)
(* them under another name and without a stereo group.                     *)
ServicePayloads == AirDescs \cup {[name |-> "A2", stereo |-> "", hp |-> "h1:7000"]}

ServiceChanged(d) ==
  /\ d \in ServicePayloads
  /\ Commit(ServiceChangedHandler(P, d), St("serviceChanged", None, d.hp, 0))

ServiceDown(d) ==
  /\ d \in ServicePayloads
  /\ Commit(ServiceDownHandler(P, d), St("serviceDown", None, d.hp, 0))

(* The daemon receives SIGINT or SIGTERM. *)
Shutdown(sig) ==
  /\ sig \in {"SIGINT", "SIGTERM"}
  /\ Commit(ShutdownHandler(P), St("shutdown", None, sig, 0))

ServiceUp(d) ==
  /\ d \in ServicePayloads
  /\ Commit(ServiceUpHandler(P, d), St("serviceUp", None, d.hp, 0))

(* child.on('exit', (code, signal) => ...) of an aplay that ends on its    *)
(* own: the handler writes to the console.                                 *)
AplayExitHandler(s, pid) == s

(* An aplay process ends on its own and Node delivers its 'exit' event. *)
AplayExits(pid) ==
  /\ pid \in aplays
  /\ \E n \in 1..Len(activeLocalOutputs) : activeLocalOutputs[n].process = pid
  /\ LET n == CHOOSE n \in 1..Len(activeLocalOutputs) :
                 activeLocalOutputs[n].process = pid
     IN Commit(AplayExitHandler([P EXCEPT !.aplays = @ \ {pid}], pid),
               St("aplayexit", None, activeLocalOutputs[n].id.name, pid))

(* A running capture process ends on its own: with code 0, or with code 1  *)
(* and, when busy, the busy/open error on its stderr.                      *)
CaptureExits(p, code, busy) ==
  /\ busy => code = 1
  /\ procs[p].st = "running"
  /\ budget.crashes > 0
  /\ Commit(EndStream([P EXCEPT !.procs[p].st = "dead", !.procs[p].own = TRUE,
                                !.procs[p].code = code, !.procs[p].busy = busy,
                                !.budget.crashes = @ - 1], p),
            St("dies", None, procs[p].dev, p))

(* A process that was sent SIGTERM ends. *)
Terminates(p) ==
  /\ procs[p].st = "terminating"
  /\ Commit(EndStream([P EXCEPT !.procs[p].st = "dead", !.procs[p].sig = TRUE], p),
            St("terminates", None, procs[p].dev, p))

(* Node delivers the 'exit' event of a dead process. *)
ExitEvent(p) ==
  /\ procs[p].st = "dead"
  /\ Commit(Reap(ExitHandler(Remember(P, procs[p]), p), p),
            [St("exit", None, procs[p].dev, p) EXCEPT !.kind = ExitKind(P, procs[p])])

(* arecord could not be started: spawn returned a ChildProcess that never  *)
(* ran ("failed"), and Node emits its 'error' event and no 'exit' event.   *)
(* Its stdout, piped into the duplicator, is closed; ends tells whether    *)
(* it emits 'end' first, which ends the duplicator.                        *)
SpawnError(p, ends) ==
  /\ procs[p].st = "failed"
  /\ LET s == ArecordErrorHandler(P, procs[p].dev)
     IN Commit([s EXCEPT !.procs[p] = NoProc,
                         !.arecordInstance = IF @ = p THEN DeadHandle ELSE @,
                         !.piped = @ \ {p},
                         !.duplicatorEnded = @ \/ (ends /\ p \in s.piped)],
               St("spawnerror", None, procs[p].dev, p))

RemoveAt(seq, i) == SubSeq(seq, 1, i - 1) \o SubSeq(seq, i + 1, Len(seq))

(* A due timer's callback runs.  Timers of one duration fire in the order  *)
(* they were created.                                                      *)
Due(i) ==
  /\ timers[i].left = 0
  /\ \A j \in 1..(i - 1) : ~(timers[j].left = 0 /\ timers[j].dur = timers[i].dur)

TimerCallback(s, tm) ==
  CASE tm.kind = "settle" -> startArecordForDevice(s, tm.dev, FALSE)
    [] tm.kind = "busy" -> startArecordForDevice(s, tm.dev, TRUE)
    [] tm.kind = "restart" -> InheritStale(RestartCallback(s, tm.dev), tm.stale)
    [] tm.kind = "restart2" -> Restart2Callback(s, tm.dev)
    [] tm.kind = "forcekill" -> ForceKillCallback(s)
    [] tm.kind = "aplayerror" ->   \* child.on('error', ...) of an aplay
         Log(s, E("server_error", "all", "Local output error", 0))

FireTimer(i) ==
  /\ i \in 1..Len(timers)
  /\ Due(i)
  /\ Commit(TimerCallback([P EXCEPT !.timers = RemoveAt(@, i)], timers[i]),
            [St(timers[i].kind, None, timers[i].dev, timers[i].pid)
               EXCEPT !.stale = timers[i].stale])

(* A due timer's callback runs while arecord cannot be started. *)
FireTimerFailing(i, f) ==
  /\ i \in 1..Len(timers)
  /\ Due(i)
  /\ f # {}
  /\ timers[i].kind \in {"settle", "busy", "restart2"}
  /\ Commit(TimerCallback([P EXCEPT !.timers = RemoveAt(@, i), !.faulty = f],
                          timers[i]),
            [St(timers[i].kind, None, timers[i].dev, timers[i].pid)
               EXCEPT !.stale = timers[i].stale, !.faulty = f])

Tick ==
  /\ timers # <<>>
  /\ \A i \in 1..Len(timers) : timers[i].left > 0
  /\ Commit([P EXCEPT !.timers = [i \in 1..Len(@) |->
                                    [@[i] EXCEPT !.left = @ - FORCE_KILL_DELAY]]],
            St("tick", None, Void, 0))

Inputs == Devs \cup {Void}
OutLists == {<<>>, <<Ui("plughw", "plughw:0,0")>>, <<Ui("air", "C")>>}
Volumes == {30, 150}

Next ==
  \/ \E c \in Conns : Connect(c)
  \/ \E c \in Conns : Disconnect(c)
  \/ \E c \in Conns : Takeover(c)
  \/ \E c \in Conns, d \in Inputs : SwitchInput(c, d)
  \/ \E c \in Conns, o \in OutLists : SwitchOutput(c, o)
  \/ \E c \in Conns, v \in Volumes : ChangeVolume(c, v)
  \/ \E d \in AirDescs : ServiceUp(d)
  \/ \E p \in Pids, code \in {0, 1}, busy \in BOOLEAN : CaptureExits(p, code, busy)
  \/ \E p \in Pids : Terminates(p)
  \/ \E p \in Pids : ExitEvent(p)
  \/ \E i \in 1..MaxTimers : FireTimer(i)
  \/ Tick

Spec == Init /\ [][Next]_vars

(* The input session alone: one connection that owns the session and       *)
(* switches inputs, the capture processes and the timers.                  *)
NextInput ==
  \/ Connect("c1")
  \/ \E d \in Inputs : SwitchInput("c1", d)
  \/ \E p \in Pids, code \in {0, 1}, busy \in BOOLEAN : CaptureExits(p, code, busy)
  \/ \E p \in Pids : Terminates(p)
  \/ \E p \in Pids : ExitEvent(p)
  \/ \E i \in 1..MaxTimers : FireTimer(i)
  \/ Tick

SpecInput == Init /\ [][NextInput]_vars

(* The input session with one capture device: the owner switches between  *)
(* it and void, and its capture processes find the device busy.            *)
NextCounters ==
  \/ Connect("c1")
  \/ \E d \in {"plughw:1,0", Void} : SwitchInput("c1", d)
  \/ \E p \in Pids : CaptureExits(p, 1, TRUE)
  \/ \E p \in Pids : Terminates(p)
  \/ \E p \in Pids : ExitEvent(p)
  \/ \E i \in 1..MaxTimers : FireTimer(i)
  \/ Tick

SpecCounters == Init /\ [][NextCounters]_vars

(* The input session with one capture device whose arecord may fail to    *)
(* start; one that starts runs until the daemon ends it.                   *)
NextSpawnError ==
  \/ Connect("c1")
  \/ \E d \in {"plughw:1,0", Void} : SwitchInput("c1", d)
  \/ \E p \in Pids : Terminates(p)
  \/ \E p \in Pids : ExitEvent(p)
  \/ \E p \in Pids, ends \in BOOLEAN : SpawnError(p, ends)
  \/ \E i \in 1..MaxTimers : FireTimer(i)
  \/ \E i \in 1..MaxTimers : FireTimerFailing(i, {<<"enoent", "plughw:1,0">>})
  \/ Tick

SpecSpawnError == Init /\ [][NextSpawnError]_vars

(* The session owner gate: two connections that come, go, take over and    *)
(* send the three mutating commands, with the timers and process events    *)
(* the owner's commands set off (capture processes do not fail here).      *)
GateInputs == {"plughw:1,0", Void}
GateOutLists == {<<>>, <<Ui("plughw", "plughw:0,0")>>}
GateVolumes == {30}

NextGate ==
  \/ \E c \in Conns : Connect(c)
  \/ \E c \in Conns : Disconnect(c)
  \/ \E c \in Conns : Takeover(c)
  \/ \E c \in Conns, d \in GateInputs : SwitchInput(c, d)
  \/ \E c \in Conns, o \in GateOutLists : SwitchOutput(c, o)
  \/ \E c \in Conns, v \in GateVolumes : ChangeVolume(c, v)
  \/ \E p \in Pids : Terminates(p)
  \/ \E p \in Pids : ExitEvent(p)
  \/ \E i \in 1..MaxTimers : FireTimer(i)
  \/ Tick

SpecGate == Init /\ [][NextGate]_vars

(* The outputs alone: one connection that owns the session, selects       *)
(* outputs and sets the volume, and the AirPlay discovery.                 *)
SyncLists == OutLists \cup {<<Ui("plughw", "plughw:0,0"), Ui("air", "C")>>,
                            <<Ui("airpair", "Pair")>>,
                            <<Ui("air", "C"), Ui("airpair", "Pair")>>}

Faults == {<<"spawn", "plughw:0,0">>, <<"enoent", "plughw:0,0">>,
           <<"kill", "plughw:0,0">>, <<"add", "h1:7000">>, <<"add", "h3:7000">>,
           <<"stop", "h3:7000">>}

VolumeTexts == {"150", "abc"}

NextOutputs ==
  \/ Connect("c1")
  \/ \E o \in SyncLists : SwitchOutput("c1", o)
  \/ \E o \in SyncLists, f \in Faults : SwitchOutputFailing("c1", o, {f})
  \/ \E i \in 1..MaxTimers : FireTimer(i)
  \/ \E v \in Volumes \cup {-5} : ChangeVolume("c1", v)
  \/ \E txt \in VolumeTexts : ChangeVolumeText("c1", txt)
  \/ \E d \in AirDescs : ServiceUp(d)

SpecOutputs == Init /\ [][NextOutputs]_vars

(* Shutdown: one owner with a capture device and a local output, and the  *)
(* signal that ends the daemon.                                            *)
NextShutdown ==
  \/ Connect("c1")
  \/ \E d \in GateInputs : SwitchInput("c1", d)
  \/ \E o \in GateOutLists : SwitchOutput("c1", o)
  \/ \E p \in Pids : CaptureExits(p, 1, FALSE)
  \/ \E p \in Pids : Terminates(p)
  \/ \E p \in Pids : ExitEvent(p)
  \/ \E i \in 1..MaxTimers : FireTimer(i)
  \/ Tick
  \/ \E sig \in {"SIGINT", "SIGTERM"} : Shutdown(sig)

SpecShutdown == Init /\ [][NextShutdown]_vars

(* The AirPlay outputs and the catalogue: one owner selects AirPlay        *)
(* outputs while the discovery adds, changes and removes devices.          *)
AirLists == {<<>>, <<Ui("air", "C")>>, <<Ui("airpair", "Pair")>>}

NextCatalogue ==
  \/ Connect("c1")
  \/ \E o \in AirLists : SwitchOutput("c1", o)
  \/ \E d \in AirDescs : ServiceUp(d)
  \/ \E d \in ServicePayloads : ServiceChanged(d)
  \/ \E d \in AirDescs : ServiceDown(d)

SpecCatalogue == Init /\ [][NextCatalogue]_vars

(* The requested list as a list: outputs named twice, and the same       *)
(* outputs in another order.                                               *)
RepeatLists == {<<>>, <<Ui("plughw", "plughw:0,0")>>,
                <<Ui("plughw", "plughw:0,0"), Ui("plughw", "plughw:0,0")>>,
                <<Ui("plughw", "plughw:0,0"), Ui("air", "C")>>,
                <<Ui("air", "C"), Ui("plughw", "plughw:0,0")>>,
                <<Ui("air", "C"), Ui("air", "C")>>}

NextRepeats ==
  \/ Connect("c1")
  \/ \E o \in RepeatLists : SwitchOutput("c1", o)
  \/ \E v \in Volumes : ChangeVolume("c1", v)
  \/ \E d \in AirDescs : ServiceUp(d)
  \/ \E pid \in 1..MaxAplay : AplayExits(pid)

SpecRepeats == Init /\ [][NextRepeats]_vars

(* The volume: one owner selects outputs and sets the volume while        *)
(* setVolume fails for one device.                                         *)
VolumeLists == {<<>>, <<Ui("airpair", "Pair")>>,
                <<Ui("plughw", "plughw:0,0"), Ui("air", "C")>>}

VolumeFaults == {<<"setVolume", "h1:7000">>, <<"setVolume", "h3:7000">>}

NextVolume ==
  \/ Connect("c1")
  \/ \E o \in VolumeLists : SwitchOutput("c1", o)
  \/ \E o \in VolumeLists, f \in VolumeFaults : SwitchOutputFailing("c1", o, {f})
  \/ \E v \in Volumes : ChangeVolume("c1", v)
  \/ \E v \in Volumes, f \in VolumeFaults : ChangeVolumeFailing("c1", v, {f})
  \/ \E d \in AirDescs : ServiceUp(d)

SpecVolume == Init /\ [][NextVolume]_vars

(* The AirPlay discovery alone: devices come up, change and go down. *)
NextDiscovery ==
  \/ \E d \in ServicePayloads : ServiceUp(d)
  \/ \E d \in ServicePayloads : ServiceChanged(d)
  \/ \E d \in AirDescs : ServiceDown(d)

SpecDiscovery == Init /\ [][NextDiscovery]_vars

(* buildUnifiedOutputs on its own: any list of up to MaxDescs descriptors, *)
(* repeated ones included, and the rebuild of updateAllOutputs.            *)
MaxDescs == 4
BuildDescs == AirDescs \cup {[name |-> "D", stereo |-> "Pair", hp |-> "h4:7000"]}
DescLists == UNION {[1..n -> BuildDescs] : n \in 0..MaxDescs}

InitBuild ==
  /\ connected = {}
  /\ sessionOwner = None
  /\ currentInput = Void
  /\ arecordInstance = Null
  /\ inputStream = VoidStream
  /\ isManualInputSwitch = FALSE
  /\ inputRestartAttempts = 0
  /\ busyRetryAttempts = 0
  /\ procs = [p \in Pids |-> NoProc]
  /\ piped = {VoidStream}
  /\ duplicatorEnded = FALSE
  /\ timers = <<>>
  /\ volume = DEFAULT_VOLUME
  /\ selectedOutputs = <<>>
  /\ activeLocalOutputs = <<>>
  /\ activeAirPlayDevices = <<>>
  /\ availableAirplayOutputs \in DescLists
  /\ unifiedOutputs = <<>>
  /\ aplays = {}
  /\ airtunesDevs = <<>>
  /\ step = St("init", None, Void, 0)
  /\ out = <<>>
  /\ hist = NoHist
  /\ budget = [switches |-> MaxSwitches, crashes |-> MaxCrashes,
               commands |-> MaxCommands]

UpdateAllOutputs ==
  /\ step.act = "init"
  /\ Commit(updateAllOutputs(P), St("updateAllOutputs", None, Void, 0))

SpecBuild == InitBuild /\ [][UpdateAllOutputs]_vars

----------------------------------------------------------------------------
(* What the last handler did, read from out.                               *)

Did(ev) == \E i \in 1..Len(out) : out[i].ev = ev
Spawned(devId) ==
  \E i \in 1..Len(out) : out[i].ev = "spawn" /\ out[i].to = "arecord"
                         /\ out[i].what = devId
Scheduled(kind) ==
  \E i \in 1..Len(out) : out[i].ev = "setTimeout" /\ out[i].to = kind
Emitted(ev, msg) ==
  \E i \in 1..Len(out) : out[i].ev = ev /\ out[i].what = msg

(* The capture processes that are alive with their stdout piped into the   *)
(* duplicator.                                                             *)
PipedCaptures == {p \in Pids : Live(procs[p]) /\ p \in piped}

(* The first k delays of the backoff schedule 200, 400, 800, 1600, 3200.   *)
Backoff(k) == [i \in 1..k |-> 200 * Pow2(i - 1)]
Run(kind, k) == [i \in 1..k |-> kind]

(* C1: at no point are two capture processes simultaneously piped into    *)
(* the duplicator, whatever the spacing of the owner's switch_input calls. *)
C1_AtMostOneCapturePiped == Cardinality(PipedCaptures) <= 1

(* C2: a busy-retry timer for device X that was pending when the owner     *)
(* switched to another device Y spawns no capture process for X when it    *)
(* fires.                                                                  *)
C2_StaleBusyRetrySpawnsNothing ==
  (step.act = "busy" /\ step.stale /\ step.dev # currentInput)
     => ~Spawned(step.dev)

(* C3: a crash-restart timer for device X that was pending when the owner  *)
(* switched to another input Y aborts silently when it fires: it tears     *)
(* nothing down, schedules nothing and spawns nothing.                     *)
C3_StaleRestartAborts ==
  (step.act \in {"restart", "restart2"} /\ step.stale /\ step.dev # currentInput)
     => out = <<>>

(* C4: after k <= 5 consecutive busy exits of the capture process since a  *)
(* manual switch (issued with nothing of an earlier session left, and no   *)
(* other exit in between), the busy retries scheduled since that switch    *)
(* have the delays 200, 400, 800, 1600, 3200 ms up to the k-th, in order.  *)
C4_BackoffSchedule ==
  \A k \in 1..MAX_BUSY_RETRY_ATTEMPTS :
     (hist.quiet /\ hist.exits = Run("busy", k)) => hist.delays = Backoff(k)

C6_CrashRestartCap ==
  (hist.exits = Run("crash", 4) /\ ~hist.over)
     => /\ hist.restarts = MAX_INPUT_RESTART_ATTEMPTS
        /\ step.act = "exit" =>
             (Emitted("server_error", "Please reselect the input")
              /\ ~Did("setTimeout"))

(* C7: an unexpected exit of the capture process of the current device,    *)
(* with no switch_input in progress and fewer than 3 restarts made since   *)
(* the manual switch, schedules a restart.                                 *)
C7_UnexpectedExitRestarts ==
  (step.act = "exit" /\ step.kind = "crash"
   /\ hist.restarts < MAX_INPUT_RESTART_ATTEMPTS + (IF Scheduled("restart") THEN 1 ELSE 0)
   /\ \A i \in 1..Len(timers) : timers[i].kind # "settle")
     => Scheduled("restart")

----------------------------------------------------------------------------
(* The session owner gate.                                                 *)

(* Everything of the program's state; step, out, hist and budget observe.  *)
ProgramState ==
  <<connected, sessionOwner, currentInput, arecordInstance, inputStream,
    isManualInputSwitch, inputRestartAttempts, busyRetryAttempts, procs, piped,
    duplicatorEnded, timers, volume, selectedOutputs, activeLocalOutputs,
    activeAirPlayDevices, availableAirplayOutputs, unifiedOutputs, aplays,
    airtunesDevs>>

Commands == {"switch_input", "switch_output", "change_output_volume"}

(* The connections the last handler sent sessionLostControl to, and the    *)
(* positions in its output of that notice and of sessionOwnerUpdate.       *)
LostControlTo(o) == {o[i].to : i \in {j \in 1..Len(o) : o[j].ev = "sessionLostControl"}}
Positions(o, ev) == {i \in 1..Len(o) : o[i].ev = ev}

(* C8: a switch_input, switch_output or change_output_volume command from  *)
(* a connection that is not the session owner leaves every state variable   *)
(* of the program as it was (input, capture handle, counters, outputs,     *)
(* volume, owner, processes, timers) and produces no effect: no emit, no   *)
(* spawn, no kill.                                                         *)
C8_NonOwnerCommandIsNoOp ==
  [][(step'.act \in Commands /\ step'.conn # sessionOwner)
       => (UNCHANGED ProgramState /\ out' = <<>>)]_vars

C8_Witness ==
  /\ step.act = "switch_input" /\ step.conn # sessionOwner
  /\ sessionOwner \in connected /\ step.conn \in connected
  /\ arecordInstance # Null /\ step.dev # currentInput
  /\ out = <<>>

(* C9: the handler of a new connection c leaves c the session owner; when  *)
(* another connection owned the session, sessionLostControl went to that    *)
(* connection and to no other, ahead of the sessionOwnerUpdate that reports *)
(* the new owner; when none did, nobody was sent sessionLostControl.        *)
C9_NewConnectionTakesOver ==
  [][step'.act = "connection"
       => /\ sessionOwner' = step'.conn
          /\ LostControlTo(out') = (IF sessionOwner \notin {None, step'.conn}
                                    THEN {sessionOwner} ELSE {})
          /\ \A i \in Positions(out', "sessionLostControl"),
                j \in Positions(out', "sessionOwnerUpdate") : i < j]_vars

C9_Witness ==
  /\ step.act = "connection" /\ sessionOwner = step.conn
  /\ \E q \in connected \ {step.conn} : LostControlTo(out) = {q}

(* C10: when the session owner disconnects the owner becomes none; when a  *)
(* connection that is not the owner disconnects the owner stays as it was.  *)
C10_DisconnectOwnership ==
  [][step'.act = "disconnect"
       => sessionOwner' = (IF step'.conn = sessionOwner THEN None ELSE sessionOwner)]_vars

C10_Witness ==
  /\ step.act = "disconnect" /\ sessionOwner = None
  /\ connected # {} /\ step.conn \notin connected

----------------------------------------------------------------------------
(* Outputs.                                                                *)

SetOf(seq) == {seq[i] : i \in 1..Len(seq)}
SinkEffects == {"spawn", "kill", "airtunes.add", "airtunes.stop"}

(* C11: a switch_output of the owner that asks for the set of outputs that *)
(* is selected already (the set of the owner's previous switch_output)     *)
(* spawns no aplay, adds no AirPlay device and stops or kills nothing.     *)
C11_RepeatedSyncIsIdle ==
  [][(step'.act = "switch_output" /\ step'.conn = sessionOwner
      /\ SetOf(selectedOutputs') = SetOf(selectedOutputs))
       => \A i \in 1..Len(out') : out'[i].ev \notin SinkEffects]_vars

C11_Witness ==
  /\ step.act = "switch_output" /\ step.conn = sessionOwner
  /\ activeLocalOutputs # <<>> /\ activeAirPlayDevices # <<>>
  /\ \A i \in 1..Len(out) : out[i].ev \notin SinkEffects

LocalIds(s) == {s.activeLocalOutputs[i].id : i \in 1..Len(s.activeLocalOutputs)}
DeviceKeys(s, uiId) ==
  LET u == FindUnified(s, uiId)
  IN IF u = 0 THEN {}
     ELSE {s.unifiedOutputs[u].devices[i].hp :
             i \in 1..Len(s.unifiedOutputs[u].devices)} \ {""}
ErrorNotice(o) == \E i \in 1..Len(o) : o[i].ev = "server_error"

(* C12: when calls fail during a switch_output of the owner, every output  *)
(* the failures do not concern ends up as in the same call without         *)
(* failures (the local outputs and the AirPlay devices that are active),   *)
(* and a failed spawn of aplay or a failed airtunes.add is reported by a   *)
(* server_error: in the call, or for a spawn that fails after returning by *)
(* the child's 'error' handler, which is then pending and emits it.        *)
C12_SyncSurvivesFailures ==
  [][/\ (step'.act = "switch_output" /\ step'.conn = sessionOwner /\ step'.faulty # {})
          => LET f == step'.faulty
                 ff == syncOutputs(P, selectedOutputs')
                 added == SetOf(selectedOutputs') \ SetOf(selectedOutputs)
                 Pending == \E i \in 1..Len(timers') : timers'[i].kind = "aplayerror"
             IN /\ \A id \in LocalIds(ff) \cup LocalIds(P') :
                      (\A op \in {"spawn", "enoent", "kill"} : <<op, id.name>> \notin f)
                         => (id \in LocalIds(P') <=> id \in LocalIds(ff))
                /\ \A k \in SetOf(ff.activeAirPlayDevices) \cup SetOf(activeAirPlayDevices') :
                      (<<"add", k>> \notin f /\ <<"stop", k>> \notin f)
                         => (InSeq(k, activeAirPlayDevices') <=> InSeq(k, ff.activeAirPlayDevices))
                /\ \A a \in added :
                      /\ (a.kind = "plughw" /\ <<"spawn", a.name>> \in f) => ErrorNotice(out')
                      /\ (a.kind = "plughw" /\ <<"enoent", a.name>> \in f) => Pending
                      /\ \A k \in DeviceKeys(P, a) : <<"add", k>> \in f => ErrorNotice(out')
     /\ step'.act = "aplayerror" => ErrorNotice(out')]_vars

C12_Witness ==
  /\ step.act = "switch_output" /\ step.conn = sessionOwner
  /\ step.faulty = {<<"add", "h1:7000">>}
  /\ ErrorNotice(out)
  /\ InSeq("h2:7000", activeAirPlayDevices) /\ ~InSeq("h1:7000", activeAirPlayDevices)

----------------------------------------------------------------------------
(* Teardown.                                                               *)

(* C13: when the 100 ms after the SIGTERM of cleanupCurrentInput are over  *)
(* and the process it was sent to has not exited, a SIGKILL is sent to     *)
(* that process.                                                           *)
C13_ForcedKillAfterGrace ==
  [][(step'.act = "forcekill" /\ step'.pid \in Pids
      /\ procs[step'.pid].st = "terminating")
       => \E i \in 1..Len(out') : /\ out'[i].ev = "kill" /\ out'[i].to = "SIGKILL"
                                   /\ out'[i].n = step'.pid]_vars

----------------------------------------------------------------------------
(* Volume.                                                                 *)

(* C14: the stored volume, and the volume every AirPlay device was given, *)
(* is an integer within 0..100 in every reachable state.                   *)
C14_VolumeInRange ==
  /\ volume \in 0..100
  /\ \A k \in DOMAIN airtunesDevs : airtunesDevs[k] \in 0..100

----------------------------------------------------------------------------
(* The duplicator's own pipes.  Nothing in the program calls               *)
(* duplicator.unpipe(fallbackSink) or duplicator.unpipe(airtunes); they    *)
(* end with the duplicator: once a source piped with the default           *)
(* {end: true} has ended, the duplicator ends, fallbackSink (piped with    *)
(* the default) is ended and both destinations are unpiped.                *)
FallbackSinkAttached == ~duplicatorEnded
AirtunesPipeAttached == ~duplicatorEnded

(* C15: in every reachable state the duplicator still has fallbackSink and *)
(* airtunes attached, and neither has been ended.                          *)
C15_DuplicatorSinksStayAttached == FallbackSinkAttached /\ AirtunesPipeAttached

----------------------------------------------------------------------------
(* buildUnifiedOutputs.                                                    *)

(* The stereo group key of a descriptor: its group name, or its own        *)
(* host:port when it has none.                                             *)
GroupKeyOf(d) == IF d.stereo = "" THEN d.hp ELSE d.stereo

(* The addresses of the distinct descriptors with group key k, in the      *)
(* order in which each first occurs in the list.                           *)
MembersOf(list, k) ==
  LET first == SelectSeq([i \in 1..Len(list) |-> i],
                         LAMBDA i : /\ GroupKeyOf(list[i]) = k
                                    /\ \A j \in 1..(i - 1) : list[j] # list[i])
  IN [n \in 1..Len(first) |-> list[first[n]].hp]

AirOutputs == {i \in 1..Len(unifiedOutputs) :
                 unifiedOutputs[i].uiId.kind \in {"air", "airpair"}}
HostPorts(u) == [n \in 1..Len(u.devices) |-> u.devices[n].hp]

(* C16: after a rebuild, the AirPlay outputs are one per stereo group key  *)
(* of the distinct descriptors; the output of a group has the group's      *)
(* members in discovery order, and it is stereo (every member flagged      *)
(* stereo) exactly when the group has two or more members.                 *)
C16_GroupsByStereoKey ==
  step.act = "updateAllOutputs" =>
    LET list == availableAirplayOutputs
        keys == {GroupKeyOf(list[i]) : i \in 1..Len(list)}
    IN /\ Cardinality(AirOutputs) = Cardinality(keys)
       /\ \A k \in keys :
            \E i \in AirOutputs :
               LET u == unifiedOutputs[i]
               IN /\ HostPorts(u) = MembersOf(list, k)
                  /\ u.isStereo = (Len(u.devices) >= 2)
                  /\ \A n \in 1..Len(u.devices) : u.devices[n].isStereo = u.isStereo
                  /\ u.uiId.kind = (IF u.isStereo THEN "airpair" ELSE "air")

C16_Witness ==
  /\ step.act = "updateAllOutputs"
  /\ Len(availableAirplayOutputs) = 4
  /\ {availableAirplayOutputs[i].name : i \in 1..4} = {"A", "B", "C"}
  /\ availableAirplayOutputs[1].name = "A"
  /\ \E i \in AirOutputs : /\ unifiedOutputs[i].isStereo
                            /\ HostPorts(unifiedOutputs[i]) = <<"h1:7000", "h2:7000">>
  /\ \E i \in AirOutputs : /\ ~unifiedOutputs[i].isStereo
                            /\ HostPorts(unifiedOutputs[i]) = <<"h3:7000">>

----------------------------------------------------------------------------
(* Discovery.                                                              *)

(* C17: whatever serviceUp, serviceChanged and serviceDown events came,    *)
(* the catalog has at most one descriptor per host:port, and every         *)
(* descriptor of the catalog (one reported a second time included) is a    *)
(* member of exactly one unified output, once.                             *)
C17_OneDescriptorPerAddress ==
  LET list == availableAirplayOutputs
  IN /\ \A i, j \in 1..Len(list) : list[i].hp = list[j].hp => i = j
     /\ \A i \in 1..Len(list) :
          Cardinality({<<u, n>> \in AirOutputs \X (1..Len(list)) :
                         /\ n <= Len(unifiedOutputs[u].devices)
                         /\ unifiedOutputs[u].devices[n].hp = list[i].hp}) = 1

(* A device already in the catalog is reported up again. *)
C17_Witness ==
  /\ step.act = "serviceUp" /\ out = <<>>
  /\ Len(availableAirplayOutputs) >= 2
  /\ \E i \in 1..Len(availableAirplayOutputs) : availableAirplayOutputs[i].hp = step.dev

----------------------------------------------------------------------------
(* Shutdown.                                                               *)

KilledIn(o, what, pid) ==
  \E i \in 1..Len(o) : o[i].ev = "kill" /\ o[i].what = what /\ o[i].n = pid

(* C18: the SIGINT/SIGTERM handler sends a termination to the capture     *)
(* process arecordInstance holds, when it is alive, and to the process of  *)
(* every entry of activeLocalOutputs, before it exits.                     *)
C18_ShutdownTerminatesChildren ==
  [][step'.act = "shutdown"
       => /\ (arecordInstance \in Pids /\ Live(procs[arecordInstance]))
               => (KilledIn(out', "", arecordInstance)
                   /\ procs'[arecordInstance].st = "terminating")
          /\ \A i \in 1..Len(activeLocalOutputs) :
               /\ KilledIn(out', "aplay", activeLocalOutputs[i].process)
               /\ activeLocalOutputs[i].process \notin aplays']_vars

C18_Witness ==
  /\ step.act = "shutdown"
  /\ \E p \in Pids : KilledIn(out, "", p) /\ procs[p].st = "terminating" /\ p \notin piped
  /\ activeLocalOutputs # <<>>
  /\ KilledIn(out, "aplay", activeLocalOutputs[1].process)

----------------------------------------------------------------------------
(* The counters and the manual-switch flag.                                *)

(* C19: after a switch_input of the session owner busyRetryAttempts and   *)
(* inputRestartAttempts are both 0, whatever they were before              *)
(* (step.before) and whatever the session was doing.                       *)
C19_SwitchResetsCounters ==
  (step.act = "switch_input" /\ step.conn = sessionOwner)
     => (busyRetryAttempts = 0 /\ inputRestartAttempts = 0)

C19_Witness ==
  /\ step.act = "switch_input" /\ step.conn = sessionOwner
  /\ step.before[2] > 0
  /\ busyRetryAttempts = 0 /\ inputRestartAttempts = 0

(* C20: once the settle timer of the owner's latest switch_input to a     *)
(* device has spawned and piped the capture process, isManualInputSwitch   *)
(* is false.                                                               *)
C20_FlagClearedOnceStarted ==
  (step.act = "settle" /\ ~step.stale /\ step.dev = currentInput /\ Spawned(step.dev)
   /\ arecordInstance \in piped)
     => ~isManualInputSwitch

----------------------------------------------------------------------------
(* Busy exits after a switch from a running device.                       *)

(* C21: when the owner's switch_input to a device was issued while the     *)
(* capture process of another device was running, the busy exit of the     *)
(* first capture process of the new device is retried: busyRetryAttempts   *)
(* becomes 1, a busy retry is scheduled and no server_error is emitted,    *)
(* whenever the exit event of the old process was delivered.               *)
C21_BusyExitAfterSwitchRetries ==
  (step.act = "exit" /\ step.kind = "busy" /\ hist.prev
   /\ hist.exits = <<"busy">>)
     => (Scheduled("busy") /\ busyRetryAttempts = 1 /\ ~ErrorNotice(out))

----------------------------------------------------------------------------
(* What syncOutputs compares the requested outputs with.                   *)

(* The sinks of output uiId are open: its aplay is in activeLocalOutputs,  *)
(* or every device of its catalogue entry is an active AirPlay device.     *)
SinksOpen(s, uiId) ==
  IF uiId.kind = "plughw" THEN uiId \in LocalIds(s)
  ELSE DeviceKeys(s, uiId) # {}
       /\ DeviceKeys(s, uiId) \subseteq SetOf(s.activeAirPlayDevices)

(* C22: after a switch_output of the owner in which no call failed, every  *)
(* requested output that is in the catalogue has its sinks open, also when *)
(* an earlier switch_output requested it while it was not in the catalogue *)
(* or while its spawn or add failed.                                       *)
C22_SyncAddsWhatIsNotActive ==
  (step.act = "switch_output" /\ step.conn = sessionOwner /\ step.faulty = {})
     => \A i \in 1..Len(selectedOutputs) :
           (selectedOutputs[i].kind = "plughw"
            \/ FindUnified(P, selectedOutputs[i]) # 0)
              => SinksOpen(P, selectedOutputs[i])

(* C23: after a switch_output of the owner that leaves no AirPlay output   *)
(* requested, with no call failing, no AirPlay device is active: the       *)
(* devices added for an output are stopped and dropped when the output is  *)
(* removed, whatever the discovery did to the catalogue in between.        *)
C23_RemovedStreamingSinksStopped ==
  (step.act = "switch_output" /\ step.conn = sessionOwner
   /\ \A i \in 1..Len(selectedOutputs) :
         selectedOutputs[i].kind \notin {"air", "airpair"})
     => (activeAirPlayDevices = <<>> /\ DOMAIN airtunesDevs = {})

(* C24: after a switch_output of the owner there is exactly one aplay      *)
(* entry in activeLocalOutputs for every local output of the requested     *)
(* list, however often the list names it.                                  *)
C24_OneSinkPerLocalOutput ==
  (step.act = "switch_output" /\ step.conn = sessionOwner)
     => \A i \in 1..Len(selectedOutputs) :
           selectedOutputs[i].kind = "plughw"
             => Cardinality({n \in 1..Len(activeLocalOutputs) :
                               activeLocalOutputs[n].id = selectedOutputs[i]}) = 1

(* C25: once the 'exit' or the 'error' event of the aplay of a local       *)
(* output has been handled, activeLocalOutputs holds no entry with that    *)
(* process.                                                                *)
C25_DeadSinkLeavesActiveSet ==
  step.act \in {"aplayexit", "aplayerror"}
    => \A n \in 1..Len(activeLocalOutputs) :
          ~(activeLocalOutputs[n].process = step.pid
            /\ activeLocalOutputs[n].id.name = step.dev)

(* C26: in the effects of one switch_output, every kill of an aplay and    *)
(* every airtunes.stop comes before every spawn of an aplay and every      *)
(* airtunes.add.                                                           *)
C26_RemovalsBeforeAdditions ==
  step.act = "switch_output"
    => \A i \in Positions(out, "kill") \cup Positions(out, "airtunes.stop"),
          j \in Positions(out, "spawn") \cup Positions(out, "airtunes.add") : i < j

C26_Witness ==
  /\ step.act = "switch_output" /\ step.conn = sessionOwner
  /\ Positions(out, "kill") # {} /\ Positions(out, "airtunes.add") # {}

----------------------------------------------------------------------------
(* The volume of the AirPlay devices.                                      *)

(* The device keys airtunes.setVolume was called for, in the last handler. *)
VolumeTargets ==
  {out[i].what : i \in Positions(out, "airtunes.setVolume")}

----------------------------------------------------------------------------
(* Taking the session over.                                                *)

(* C28: a user_takeover of a connection c leaves c the session owner; when *)
(* another connection owned the session, sessionLostControl went to that   *)
(* connection and to no other, ahead of the sessionOwnerUpdate that        *)
(* reports c; when c owned the session already, nothing changes and        *)
(* nothing is sent.                                                        *)
C28_TakeoverMakesOwner ==
  [][step'.act = "user_takeover"
       => /\ sessionOwner' = step'.conn
          /\ (sessionOwner = step'.conn)
                => (UNCHANGED ProgramState /\ out' = <<>>)
          /\ (sessionOwner # step'.conn)
                => /\ LostControlTo(out') = (IF sessionOwner # None
                                             THEN {sessionOwner} ELSE {})
                   /\ Positions(out', "sessionOwnerUpdate") # {}
                   /\ \A i \in Positions(out', "sessionLostControl"),
                         j \in Positions(out', "sessionOwnerUpdate") : i < j]_vars

C28_Witness ==
  /\ step.act = "user_takeover" /\ sessionOwner = step.conn
  /\ \E q \in connected \ {step.conn} : LostControlTo(out) = {q}

----------------------------------------------------------------------------
(* The void input.                                                         *)

(* C29: when the handler of the owner's switch_input to "void" returns,    *)
(* currentInput is "void", arecordInstance is null, inputStream is a       *)
(* FromVoid stream piped into the duplicator, isManualInputSwitch is false *)
(* and busyRetryAttempts and inputRestartAttempts are 0.                   *)
C29_SwitchToVoid ==
  (step.act = "switch_input" /\ step.conn = sessionOwner /\ step.dev = Void)
     => /\ currentInput = Void
        /\ arecordInstance = Null
        /\ inputStream = VoidStream /\ inputStream \in piped
        /\ ~isManualInputSwitch
        /\ busyRetryAttempts = 0 /\ inputRestartAttempts = 0

C29_Witness ==
  /\ step.act = "switch_input" /\ step.conn = sessionOwner /\ step.dev = Void
  /\ step.before[1] > 0
  /\ Did("kill")
  /\ currentInput = Void /\ arecordInstance = Null /\ ~isManualInputSwitch

----------------------------------------------------------------------------
(* After the restarts are used up.                                         *)

(* C30: from the exit that used up the restarts ('Please reselect the      *)
(* input') until the owner's next switch_input, no handler spawns arecord  *)
(* and none schedules a restart or a retry.                                *)
C30_NothingAfterExhaustion ==
  hist.failed
    => /\ \A d \in Devs : ~Spawned(d)
       /\ ~Scheduled("restart") /\ ~Scheduled("restart2") /\ ~Scheduled("busy")

----------------------------------------------------------------------------
(* The uiId of a device over the rebuilds of the catalogue.                *)

(* The uiIds of the unified outputs that have the device host:port. *)
UiIdsOf(outs, hp) ==
  {outs[u].uiId : u \in {i \in 1..Len(outs) :
                           \E n \in 1..Len(outs[i].devices) : outs[i].devices[n].hp = hp}}

(* C31: an AirPlay device that is in the catalogue before and after an     *)
(* event with the same descriptor (name, stereo group, host:port) belongs  *)
(* to an output with the same uiId before and after the rebuild.           *)
C31_StableUiId ==
  [][\A d \in ServicePayloads :
       (InSeq(d, availableAirplayOutputs) /\ InSeq(d, availableAirplayOutputs'))
         => UiIdsOf(unifiedOutputs', d.hp) = UiIdsOf(unifiedOutputs, d.hp)]_vars

----------------------------------------------------------------------------
(* The input side and the output side.                                     *)

(* The steps of the input side: switch_input, the capture process ending,  *)
(* its 'exit' handler, and the timers of the settle delay, the busy retry  *)
(* and the restart.                                                        *)
InputSteps == {"switch_input", "dies", "terminates", "exit", "settle", "busy",
               "restart", "restart2", "forcekill"}

(* The aplay processes whose stdin the duplicator is piped into:           *)
(* duplicator.pipe(child.stdin) is made with the default {end: true}, so   *)
(* the pipes end with the duplicator.                                      *)
LocalSinkPipes ==
  IF duplicatorEnded THEN {}
  ELSE {activeLocalOutputs[n].process : n \in 1..Len(activeLocalOutputs)}

(* C32: a step of the input side (a switch_input, the end of a capture     *)
(* process and the retry or restart that follows) leaves selectedOutputs,  *)
(* activeLocalOutputs, the aplay processes and the duplicator's pipes to   *)
(* them, activeAirPlayDevices, the AirPlay devices and the volume as they  *)
(* were.                                                                   *)
C32_InputLeavesOutputsAlone ==
  [][step'.act \in InputSteps
       => /\ UNCHANGED <<selectedOutputs, activeLocalOutputs, aplays,
                         activeAirPlayDevices, airtunesDevs, volume>>
          /\ LocalSinkPipes' = LocalSinkPipes]_vars

(* The same without the pipes: the variables of the output side alone. *)
OutputVariablesUntouched ==
  [][step'.act \in InputSteps
       => UNCHANGED <<selectedOutputs, activeLocalOutputs, aplays,
                      activeAirPlayDevices, airtunesDevs, volume>>]_vars

----------------------------------------------------------------------------
(* arecord cannot be started.                                              *)

(* C33: the 'error' event of an arecord that could not be started is       *)
(* reported by a server_error, and its handler schedules nothing: the      *)
(* pending timers are the ones that were pending before.                   *)
C33_SpawnErrorReportedNotRetried ==
  [][step'.act = "spawnerror"
       => /\ ErrorNotice(out')
          /\ Positions(out', "setTimeout") = {}
          /\ timers' = timers]_vars

C33_Witness ==
  /\ step.act = "spawnerror" /\ step.dev = currentInput
  /\ Emitted("server_error", "Input device error")
  /\ arecordInstance = DeadHandle /\ timers = <<>>

----------------------------------------------------------------------------
(* The owner is a connection.                                              *)

(* C34: in every reachable state sessionOwner is null or the id of a       *)
(* socket that is connected.                                               *)
C34_OwnerIsConnected == sessionOwner = None \/ sessionOwner \in connected

C34_Witness ==
  /\ step.act = "disconnect" /\ step.conn \notin connected
  /\ sessionOwner \in connected
  /\ currentInput # Void

----------------------------------------------------------------------------
(* The range of the two counters.                                          *)

(* C35: in every reachable state busyRetryAttempts is in                   *)
(* 0..MAX_BUSY_RETRY_ATTEMPTS and inputRestartAttempts is in               *)
(* 0..MAX_INPUT_RESTART_ATTEMPTS.                                          *)
C35_CountersInRange ==
  /\ busyRetryAttempts \in 0..MAX_BUSY_RETRY_ATTEMPTS
  /\ inputRestartAttempts \in 0..MAX_INPUT_RESTART_ATTEMPTS

====
